---- MODULE Spec2Model ----
(***************************************************************************)
(* Model of chilltonik/finance-tracker.                                    *)
(*                                                                         *)
(*   Ledger Store   : finance_tracker/database.py  (class Database)        *)
(*   Theme Registry : finance_tracker/theme_manager.py (class ThemeManager)*)
(*                                                                         *)
(* The ledger is the `transactions` table of the SQLite file: a sequence   *)
(* of rows in rowid order plus the AUTOINCREMENT high-water mark.  Time is *)
(* a UTC clock counted in slots (SlotsPerDay slots per day); Python's      *)
(* datetime.now() is the local wall clock (UTC clock + tz) while SQLite's  *)
(* date('now') is UTC.  Amounts are exact numbers (currency units).        *)
(***************************************************************************)
EXTENDS Integers, Sequences, FiniteSets, TLC

VARIABLES
    rows,               \* transactions table, in rowid (storage) order
    seq,                \* sqlite_sequence: largest id ever assigned
    now,                \* UTC clock, in slots
    tz,                 \* local-time offset of the host, in slots
    ticks,              \* number of clock advances so far
    call,               \* the last Ledger Store call and its arguments
    ret,                \* what that call returned, or that it raised
    before,             \* the table as it was when that call started
    twice,              \* that call repeats the successful call before it
    assigned            \* the ids successful adds were given, in order

ledgerVars == <<rows, seq, now, tz, ticks, call, ret, before, twice, assigned>>

VARIABLES
    themesFile,         \* content of config/themes.toml
    settingsFile,       \* content of config/settings.toml
    themes,             \* ThemeManager.themes: the keys `in` finds in it
    current_theme_key,  \* ThemeManager.current_theme_key
    pc,                 \* position inside switch_theme
    pending,            \* theme_key argument of the switch_theme in progress
    tcall,              \* the last call of the Theme Registry or of the
                        \* presentation layer and its argument (or that a
                        \* file was edited since)
    tret,               \* what that call returned
    tbefore,            \* registry and preference file when that call started
    loadedOk,           \* initialize() has returned normally in this process
    fresh,              \* no registry method has been called in this process
    lastSwitched,       \* key of the last switch_theme that returned True,
                        \* while the preference file is as that call left it
    instance,           \* ThemeManager._instance: 0 for None, else the
                        \* number of the object it holds
    initialized,        \* ThemeManager._initialized
    themesType,         \* type of ThemeManager.themes: "dict" or "str"
    ready,              \* the last initialize() of this process returned
                        \* normally
    unsaved             \* the active key was set by a switch_theme whose
                        \* preference write failed, and no call has stored
                        \* or reloaded the preference since

themeVars == <<themesFile, settingsFile, themes, current_theme_key, pc,
               pending, tcall, tret, tbefore, loadedOk, fresh, lastSwitched,
               instance, initialized, themesType, ready, unsaved>>

VARIABLES
    colors,             \* the constants of the colours module, by name
    appColors,          \* the app module's copies of them (from ... import)
    cbefore             \* both, when the last call of the presentation
                        \* layer started

uiVars == <<colors, appColors, cbefore>>

vars == <<ledgerVars, themeVars, uiVars>>

----------------------------------------------------------------------------
(* Bounds of the model *)

MaxAdds == 2
MaxTicks == 2
SlotsPerDay == 4

(* Program constants *)

WindowDays == 30
TopLimit == 5

----------------------------------------------------------------------------
(* Values *)

None == "None"

Kinds == {"income", "expense", "Income"}
Categories == {"Food", "Salary"}
Amounts == {50, 2000}
StatKinds == {"income", "expense"}
StatAmounts == {50}
Descriptions == {"lunch"}
Limits == {-1, 0, 1, 10}
Ids == 1..(MaxAdds + 1)
TzOffsets == {-(SlotsPerDay \div 2), 0, SlotsPerDay \div 2}
Epoch == SlotsPerDay
Advances == {1, WindowDays * SlotsPerDay - 1, WindowDays * SlotsPerDay}
OneSlot == {1}

----------------------------------------------------------------------------
(* Text of timestamps.  An ISO datetime is modelled by the tuple <<day,    *)
(* slot>>, an ISO date by <<day>>; text comparison is lexicographic, a     *)
(* proper prefix being smaller.                                            *)

isoformat(t) == <<t \div SlotsPerDay, t % SlotsPerDay>>

sqlite_date(t, days) == <<(t \div SlotsPerDay) + days>>

RECURSIVE TextLess(_, _)
TextLess(a, b) ==
    IF b = <<>> THEN FALSE
    ELSE IF a = <<>> THEN TRUE
    ELSE IF Head(a) # Head(b) THEN Head(a) < Head(b)
    ELSE TextLess(Tail(a), Tail(b))

TextGE(a, b) == ~TextLess(a, b)

----------------------------------------------------------------------------
(* SQL evaluation over the transactions table *)

\* SUM(CASE WHEN type = kind THEN amount ELSE 0 END): NULL over no rows.
RECURSIVE CaseTotal(_, _)
CaseTotal(rs, kind) ==
    IF rs = <<>> THEN 0
    ELSE (IF Head(rs).type = kind THEN Head(rs).amount ELSE 0)
         + CaseTotal(Tail(rs), kind)

\* A nullable SQL number is <<>> (NULL) or <<n>>.
SqlNull == <<>>

\* (mutant) a CASE that compares the type without regard to letter case.
SumCaseAnyCase(rs, kind) ==
    IF rs = <<>> THEN SqlNull
    ELSE <<CaseTotal(rs, kind)
           + (IF kind = "income" THEN CaseTotal(rs, "Income") ELSE 0)>>

SumCase(rs, kind) == IF rs = <<>> THEN SqlNull ELSE <<CaseTotal(rs, kind)>>

\* (mutant) COALESCE that yields a wrong value for NULL.
CoalesceWrongDefault(v, d) == IF v = SqlNull THEN d + 1 ELSE v[1]

Coalesce(v, d) == IF v = SqlNull THEN d ELSE v[1]

\* (mutant) LIMIT that lets one row too many through.
SqlLimitOffByOne(s, n) ==
    IF n < 0 \/ n + 1 >= Len(s) THEN s ELSE SubSeq(s, 1, n + 1)

\* LIMIT n: a negative n is no limit at all.
SqlLimit(s, n) ==
    IF n < 0 \/ n >= Len(s) THEN s ELSE SubSeq(s, 1, n)

\* WHERE date >= date('now', '-30 days'): text against text.
InSqlWindow(r, t) == TextGE(r.date, sqlite_date(t, -WindowDays))

\* ORDER BY date DESC: every order of the rows of S in which the date text
\* never increases (SQL leaves the order of equal keys open).
RECURSIVE ByDateDesc(_)
ByDateDesc(S) ==
    IF S = {} THEN {<<>>}
    ELSE UNION {
        {<<m>> \o t : t \in ByDateDesc(S \ {m})} :
            m \in {x \in S : \A y \in S : ~TextLess(x.date, y.date)} }

\* ORDER BY total DESC over <<category, total>> groups, likewise.
RECURSIVE ByTotalDesc(_)
ByTotalDesc(S) ==
    IF S = {} THEN {<<>>}
    ELSE UNION {
        {<<m>> \o t : t \in ByTotalDesc(S \ {m})} :
            m \in {x \in S : \A y \in S : ~(x[2] < y[2])} }

Range(s) == {s[i] : i \in 1..Len(s)}

----------------------------------------------------------------------------
(* Ledger Store: finance_tracker/database.py *)

\* (mutant) a row with type and category in each other's column.
NewRow_swapped(id, kind, category, amount, description, stamp) ==
    [id |-> id, type |-> category, category |-> kind, amount |-> amount,
     description |-> description, date |-> stamp, created_at |-> stamp]

NewRow(id, kind, category, amount, description, stamp) ==
    [id |-> id, type |-> kind, category |-> category, amount |-> amount,
     description |-> description, date |-> stamp, created_at |-> stamp]

\* (mutant) a rowid column without AUTOINCREMENT: one more than the largest
\* id in the table.
max_rowid_plus_one(rs, high) ==
    IF rs = <<>> THEN 1
    ELSE 1 + (CHOOSE m \in {rs[i].id : i \in 1..Len(rs)} :
                  \A i \in 1..Len(rs) : rs[i].id <= m)

\* id INTEGER PRIMARY KEY AUTOINCREMENT: one more than the largest id the
\* table ever held (sqlite_sequence)
autoincrement(rs, high) == high + 1

\* (mutant) a failed call whose statement stays in the table.
committed_anyway(rs, attempted) == attempted

\* with sqlite3.connect(...) as conn: an exception inside the block rolls the
\* statement back
rolled_back(rs, attempted) == rs

\* INSERT INTO transactions ... with date = created_at = datetime.now().isoformat()
insert_row(rs, id, kind, category, amount, description, t, offset) ==
    Append(rs, NewRow(id, kind, category, amount, description,
                      isoformat(t + offset)))

\* (mutant) DELETE that also removes every newer row.
delete_rows_from(rs, id) == LET Older(r) == r.id < id IN SelectSeq(rs, Older)

\* (mutant) DELETE that also removes every older row.
delete_rows_upto(rs, id) == LET Newer(r) == r.id > id IN SelectSeq(rs, Newer)

\* DELETE FROM transactions WHERE id = ?
delete_rows(rs, id) == LET Other(r) == r.id # id IN SelectSeq(rs, Other)

\* (mutant) balance that counts every row that is not income as an expense.
get_balance_rest_as_expense(rs) ==
    LET total == Coalesce(SumCase(rs, "income"), 0)
                 + Coalesce(SumCase(rs, "expense"), 0)
                 + Coalesce(SumCase(rs, "Income"), 0)
    IN  2 * Coalesce(SumCase(rs, "income"), 0) - total

\* SELECT COALESCE(SUM(income), 0) - COALESCE(SUM(expense), 0) FROM transactions
get_balance(rs) ==
    Coalesce(SumCase(rs, "income"), 0) - Coalesce(SumCase(rs, "expense"), 0)

\* SELECT ... FROM transactions ORDER BY date DESC LIMIT ?  (every possible answer)
get_transactions(rs, limit) ==
    {SqlLimit(s, limit) : s \in ByDateDesc(Range(rs))}

\* The two 30-day sums of get_statistics.
monthly_sums(rs, t) ==
    LET Recent(r) == InSqlWindow(r, t)
        win == SelectSeq(rs, Recent)
    IN  [monthly_income |-> Coalesce(SumCase(win, "income"), 0),
         monthly_expense |-> Coalesce(SumCase(win, "expense"), 0)]

\* SUM(amount) of one GROUP BY category group.
RECURSIVE GroupTotal(_, _)
GroupTotal(rs, category) ==
    IF rs = <<>> THEN 0
    ELSE (IF Head(rs).category = category THEN Head(rs).amount ELSE 0)
         + GroupTotal(Tail(rs), category)

\* SELECT category, SUM(amount) ... WHERE type = 'expense' AND date >= ...
\* GROUP BY category ORDER BY total DESC LIMIT 5  (every possible answer)
top_categories(rs, t) ==
    LET Recent(r) == r.type = "expense" /\ InSqlWindow(r, t)
        win == SelectSeq(rs, Recent)
        groups == {<<c, GroupTotal(win, c)>> : c \in {r.category : r \in Range(win)}}
    IN  {SqlLimit(s, TopLimit) : s \in ByTotalDesc(groups)}

----------------------------------------------------------------------------
(* Theme Registry values.  A theme key is a string; KeyText gives its      *)
(* characters, so that the format check reads them as re.match does.       *)

Keys == {"default", "ocean_breeze", "dark\n", "Dark Mode!", "nonexistent", ""}

KeyText(key) ==
    CASE key = "default" -> <<"d", "e", "f", "a", "u", "l", "t">>
      [] key = "ocean_breeze" ->
            <<"o", "c", "e", "a", "n", "_", "b", "r", "e", "e", "z", "e">>
      [] key = "dark\n" -> <<"d", "a", "r", "k", "\n">>
      [] key = "Dark Mode!" ->
            <<"D", "a", "r", "k", " ", "M", "o", "d", "e", "!">>
      [] key = "nonexistent" ->
            <<"n", "o", "n", "e", "x", "i", "s", "t", "e", "n", "t">>
      [] key = "" -> <<>>

\* The character class [a-z0-9_]
IdChars ==
    {"a", "b", "c", "d", "e", "f", "g", "h", "i", "j", "k", "l", "m", "n",
     "o", "p", "q", "r", "s", "t", "u", "v", "w", "x", "y", "z",
     "0", "1", "2", "3", "4", "5", "6", "7", "8", "9", "_"}

\* Length of the longest prefix of text made of class characters.
RECURSIVE ClassRun(_)
ClassRun(text) ==
    IF text = <<>> \/ Head(text) \notin IdChars THEN 0
    ELSE 1 + ClassRun(Tail(text))

\* re.match(r"^[a-z0-9_]+$", theme_key): Python's $ matches at the end of
\* the string and also just before a newline that ends it.
re_match(key) ==
    LET text == KeyText(key)
        n == ClassRun(text)
    IN  /\ n >= 1
        /\ \/ n = Len(text)
           \/ n = Len(text) - 1 /\ text[Len(text)] = "\n"

(* config/themes.toml *)
ThemesMissing == [kind |-> "missing"]
ThemesNoTable == [kind |-> "notable"]
ThemesDoc(keys) == [kind |-> "themes", keys |-> keys]
\* a file whose `theme` entry is a string instead of a table of themes
ThemesText(key) == [kind |-> "text", text |-> key]

\* `key in text` for two strings: key occurs in text
InText(key, text) ==
    LET k == KeyText(key)
        t == KeyText(text)
    IN  \E i \in 1..(Len(t) + 1) :
            /\ i + Len(k) - 1 <= Len(t)
            /\ SubSeq(t, i, i + Len(k) - 1) = k

ThemeFiles ==
    {ThemesMissing, ThemesNoTable, ThemesText("default"),
     ThemesDoc({"default"}),
     ThemesDoc({"default", "ocean_breeze"}),
     ThemesDoc({"default", "ocean_breeze", "dark\n", "Dark Mode!"}),
     ThemesDoc({"ocean_breeze"})}

(* config/settings.toml: absent, not TOML, or a document with an           *)
(* `appearance` entry (none, not a table, or a table with or without a     *)
(* `theme` entry and with or without other entries) and possibly other     *)
(* sections.                                                               *)
NoEntry == "<no entry>"
\* a `theme` entry that is an array: a value that cannot be looked up in a dict
Unhashable == "<array>"
SettingsAbsent == [kind |-> "absent"]
SettingsMalformed == [kind |-> "malformed"]
NoSection == [kind |-> "none"]
NotATable == [kind |-> "scalar"]
Table(theme, extra) == [kind |-> "table", theme |-> theme, extra |-> extra]
Doc(appearance, other) ==
    [kind |-> "doc", appearance |-> appearance, other |-> other]
EmptyDoc == Doc(NoSection, FALSE)

SettingsFiles ==
    {SettingsAbsent, SettingsMalformed,
     Doc(NoSection, TRUE),
     Doc(NotATable, FALSE),
     Doc(Table(NoEntry, TRUE), FALSE),
     Doc(Table("ocean_breeze", TRUE), TRUE),
     Doc(Table("nonexistent", FALSE), FALSE),
     Doc(Table(Unhashable, FALSE), FALSE)}

IoFaults == {"none", "read", "open", "write"}

(* What the themes of themes.toml define: a theme is a table from role     *)
(* names to colour strings (the role `categories` holds a table of its     *)
(* own, written here as one string).  A theme need not define every role.  *)
Roles == {"accent_purple", "warning", "categories", "no_such_role"}

Palette(key) ==
    CASE key = "default" ->
            [role \in {"accent_purple", "warning", "categories"} |->
                CASE role = "accent_purple" -> "#8B5CF6"
                  [] role = "warning" -> "#F59E0B"
                  [] role = "categories" -> "{Food: #EF4444}"]
      [] key = "ocean_breeze" ->
            [role \in {"accent_purple"} |-> "#00E5FF"]
      [] OTHER -> [role \in {} |-> "#000000"]

\* theme.get(role, fallback)
theme_get(key, role, fallback) ==
    IF role \in DOMAIN Palette(key) THEN Palette(key)[role] ELSE fallback

----------------------------------------------------------------------------
(* Ledger Store calls.  `fault` is the storage layer failing under the     *)
(* call (sqlite3 raising): add and delete catch it and return False, the   *)
(* read methods let it propagate.  `call` records the call, whether the    *)
(* storage faulted under it and the clock when it was made.                *)

Called(op, args, fault) == [op |-> op, args |-> args, fault |-> fault, at |-> now]

Returned(v) == [raised |-> FALSE, value |-> v]

Raises == [raised |-> TRUE, value |-> None]

\* Database.__init__ / init_database: CREATE TABLE IF NOT EXISTS
init_database ==
    /\ call' = Called("init_database", <<>>, FALSE)
    /\ ret' = Returned(None)
    /\ before' = rows
    /\ twice' = FALSE
    /\ UNCHANGED <<rows, seq, now, tz, ticks, assigned>>

add_transaction(kind, category, amount, description, fault) ==
    /\ seq < MaxAdds
    /\ call' = Called("add_transaction",
                      <<kind, category, amount, description>>, fault)
    /\ before' = rows
    /\ twice' = FALSE
    /\ LET id == autoincrement(rows, seq)
           attempted == insert_row(rows, id, kind, category, amount,
                                   description, now, tz)
       IN  IF fault
           THEN /\ rows' = rolled_back(rows, attempted)
                /\ ret' = Returned(FALSE)
                /\ UNCHANGED <<seq, assigned>>
           ELSE /\ rows' = attempted
                /\ seq' = IF id > seq THEN id ELSE seq
                /\ assigned' = Append(assigned, id)
                /\ ret' = Returned(TRUE)
    /\ UNCHANGED <<now, tz, ticks>>

delete_transaction(id, fault) ==
    /\ call' = Called("delete_transaction", <<id>>, fault)
    /\ before' = rows
    /\ twice' = /\ call.op = "delete_transaction"
                /\ call.args = <<id>>
                /\ ~call.fault
                /\ ~fault
    /\ IF fault
       THEN /\ rows' = rolled_back(rows, delete_rows(rows, id))
            /\ ret' = Returned(FALSE)
       ELSE /\ rows' = delete_rows(rows, id)
            /\ ret' = Returned(TRUE)
    /\ UNCHANGED <<seq, now, tz, ticks, assigned>>

GetTransactions(limit, fault) ==
    /\ call' = Called("get_transactions", <<limit>>, fault)
    /\ before' = rows
    /\ twice' = FALSE
    /\ IF fault
       THEN ret' = Raises
       ELSE \E answer \in get_transactions(rows, limit) : ret' = Returned(answer)
    /\ UNCHANGED <<rows, seq, now, tz, ticks, assigned>>

GetBalance(fault) ==
    /\ call' = Called("get_balance", <<>>, fault)
    /\ before' = rows
    /\ twice' = FALSE
    /\ ret' = IF fault THEN Raises ELSE Returned(get_balance(rows))
    /\ UNCHANGED <<rows, seq, now, tz, ticks, assigned>>

GetStatistics(fault) ==
    /\ call' = Called("get_statistics", <<>>, fault)
    /\ before' = rows
    /\ twice' = FALSE
    /\ IF fault
       THEN ret' = Raises
       ELSE \E top \in top_categories(rows, now) :
                ret' = Returned(
                    [monthly_income |-> monthly_sums(rows, now).monthly_income,
                     monthly_expense |-> monthly_sums(rows, now).monthly_expense,
                     top_categories |-> top])
    /\ UNCHANGED <<rows, seq, now, tz, ticks, assigned>>

\* Time passes between two calls.
Tick(d) ==
    /\ ticks < MaxTicks
    /\ now' = now + d
    /\ ticks' = ticks + 1
    /\ UNCHANGED <<rows, seq, tz, call, ret, before, twice, assigned>>

----------------------------------------------------------------------------
(* Theme Registry: finance_tracker/theme_manager.py.  `fault` names the    *)
(* file operation on settings.toml that fails under the call: reading it,  *)
(* opening it for writing (or creating its directory), or writing to it    *)
(* once it has been opened, and so truncated.                              *)

\* (mutant) a write that fails only after the new content is on disk.
save_settings_late_failure(file, settings, fault) ==
    CASE fault = "open" -> [file |-> file, exc |-> "OSError"]
      [] fault = "write" -> [file |-> settings, exc |-> "OSError"]
      [] OTHER -> [file |-> settings, exc |-> "None"]

\* _save_settings: mkdir, open(settings_path, "wb"), tomli_w.dump
save_settings(file, settings, fault) ==
    CASE fault = "open" -> [file |-> file, exc |-> "OSError"]
      [] fault = "write" -> [file |-> EmptyDoc, exc |-> "OSError"]
      [] OTHER -> [file |-> settings, exc |-> "None"]

\* (mutant) _load_themes that keeps a theme set it has already loaded.
load_themes_once(file, old) ==
    IF old.themes # {} THEN [themes |-> old.themes, type |-> old.type,
                             exc |-> "None"]
    ELSE CASE file.kind = "missing" ->
                [themes |-> old.themes, type |-> old.type,
                 exc |-> "FileNotFoundError"]
           [] file.kind = "notable" ->
                [themes |-> old.themes, type |-> old.type, exc |-> "ValueError"]
           [] file.kind = "text" ->
                LET found == {k \in Keys : InText(k, file.text)}
                IN  [themes |-> found, type |-> "str",
                     exc |-> IF "default" \in found THEN "None"
                             ELSE "ValueError"]
           [] OTHER ->
                [themes |-> file.keys, type |-> "dict",
                 exc |-> IF "default" \in file.keys THEN "None"
                         ELSE "ValueError"]

\* _load_themes: the new self.themes (with its type) and the exception
\* raised, if any.  `old` is self.themes before the call.
load_themes(file, old) ==
    CASE file.kind = "missing" ->
            [themes |-> old.themes, type |-> old.type,
             exc |-> "FileNotFoundError"]
      [] file.kind = "notable" ->
            [themes |-> old.themes, type |-> old.type, exc |-> "ValueError"]
      [] file.kind = "text" ->
            LET found == {k \in Keys : InText(k, file.text)}
            IN  [themes |-> found, type |-> "str",
                 exc |-> IF "default" \in found THEN "None" ELSE "ValueError"]
      [] OTHER ->
            [themes |-> file.keys, type |-> "dict",
             exc |-> IF "default" \in file.keys THEN "None" ELSE "ValueError"]

\* settings.get("appearance", {}).get("theme", "default")
stored_theme(doc) ==
    CASE doc.appearance.kind = "none" -> "default"
      [] doc.appearance.kind = "scalar" -> "AttributeError"
      [] OTHER -> IF doc.appearance.theme = NoEntry THEN "default"
                  ELSE doc.appearance.theme

\* (mutant) _load_settings that takes the stored key as it is.
not_validated(theme_key, loaded) == theme_key

\* _load_settings, lines 84-88: a stored key that is not a loaded theme is
\* replaced by "default"
validated(theme_key, loaded) ==
    IF theme_key \notin loaded THEN "default" ELSE theme_key

\* _load_settings: the new current_theme_key, the settings file and the
\* exception raised, if any
load_settings(file, loaded, key, fault) ==
    IF file.kind = "absent"
    THEN LET saved == save_settings(file, Doc(Table("default", FALSE), FALSE),
                                    fault)
         IN  [key |-> IF saved.exc = "None" THEN "default" ELSE key,
              file |-> saved.file, exc |-> saved.exc]
    ELSE IF fault = "read"
    THEN [key |-> key, file |-> file, exc |-> "OSError"]
    ELSE IF file.kind = "malformed"
    THEN [key |-> key, file |-> file, exc |-> "TOMLDecodeError"]
    ELSE IF stored_theme(file) = "AttributeError"
    THEN [key |-> key, file |-> file, exc |-> "AttributeError"]
    ELSE IF stored_theme(file) = Unhashable
    THEN [key |-> key, file |-> file, exc |-> "TypeError"]
    ELSE [key |-> validated(stored_theme(file), loaded),
          file |-> file, exc |-> "None"]

\* switch_theme, lines 116-125: the key is refused
refused(key, loaded) == ~re_match(key) \/ key \notin loaded

\* (mutant) switch_theme that leaves self.current_theme_key alone.
accepted_key_not_assigned(old, key) == old

\* switch_theme, line 127: self.current_theme_key = theme_key
accepted_key(old, key) == key

\* (mutant) settings rebuilt from the theme key alone.
with_theme_alone(doc, key) == Doc(Table(key, FALSE), FALSE)

\* switch_theme, lines 139-141: settings["appearance"]["theme"] = theme_key
with_theme(doc, key) ==
    IF doc.appearance.kind = "none"
    THEN Doc(Table(key, FALSE), doc.other)
    ELSE Doc(Table(key, doc.appearance.extra), doc.other)

\* switch_theme, lines 130-158: the try block; the new settings file and
\* the value returned
persist(file, key, fault) ==
    IF file.kind # "absent" /\ fault = "read"
    THEN [file |-> file, result |-> "False"]
    ELSE IF file.kind = "malformed"
    THEN [file |-> file, result |-> "False"]
    ELSE LET settings == IF file.kind = "absent" THEN EmptyDoc ELSE file IN
         IF settings.appearance.kind = "scalar"
         THEN [file |-> file, result |-> "False"]
         ELSE LET saved == save_settings(file, with_theme(settings, key), fault)
              IN  [file |-> saved.file,
                   result |-> IF saved.exc = "None" THEN "True" ELSE "False"]

ThemeCalled(op, key, fault) == [op |-> op, key |-> key, fault |-> fault]

Snapshot == [themes |-> themes, key |-> current_theme_key, file |-> settingsFile]

\* __new__: the object ThemeManager() returns, given ThemeManager._instance
new(inst) == IF inst = 0 THEN 1 ELSE inst

\* (mutant) __init__ without the _initialized guard.
init_unguarded(done, loaded, type, key) ==
    [themes |-> {}, type |-> "dict", key |-> "default"]

\* __init__: the attributes of the instance, given ThemeManager._initialized
init(done, loaded, type, key) ==
    IF ~done THEN [themes |-> {}, type |-> "dict", key |-> "default"]
    ELSE [themes |-> loaded, type |-> type, key |-> key]

\* A new process: the class attributes are None and False, and the
\* module-level ThemeManager() runs __new__ and __init__.
Restart ==
    /\ pc = "idle"
    /\ LET attrs == init(FALSE, themes, themesType, current_theme_key)
       IN  /\ themes' = attrs.themes
           /\ themesType' = attrs.type
           /\ current_theme_key' = attrs.key
    /\ instance' = new(0)
    /\ initialized' = TRUE
    /\ loadedOk' = FALSE
    /\ ready' = FALSE
    /\ fresh' = TRUE
    /\ tcall' = ThemeCalled("ThemeManager", "default", "none")
    /\ tret' = "None"
    /\ tbefore' = Snapshot
    /\ unsaved' = FALSE
    /\ UNCHANGED <<themesFile, settingsFile, pc, pending, lastSwitched>>

\* ThemeManager() once more in the same process.
Construct ==
    /\ pc = "idle"
    /\ LET attrs == init(initialized, themes, themesType, current_theme_key)
       IN  /\ themes' = attrs.themes
           /\ themesType' = attrs.type
           /\ current_theme_key' = attrs.key
    /\ instance' = new(instance)
    /\ initialized' = TRUE
    /\ tcall' = ThemeCalled("construct", "default", "none")
    /\ tret' = "None"
    /\ tbefore' = Snapshot
    /\ UNCHANGED <<themesFile, settingsFile, pc, pending, loadedOk, ready,
                   fresh, lastSwitched, unsaved>>

\* An initialize that starts from the default key instead of the stored one.
initialize_resets_key(tfile, sfile, old, key, fault) ==
    LET lt == load_themes(tfile, old)
        ls == load_settings(sfile, lt.themes, key, fault)
    IN  IF lt.exc # "None"
        THEN [themes |-> lt.themes, type |-> lt.type, key |-> key,
              file |-> sfile, exc |-> lt.exc]
        ELSE [themes |-> lt.themes, type |-> lt.type, key |-> "default",
              file |-> ls.file, exc |-> ls.exc]

\* initialize, as a function of the registry and the two files: the new
\* self.themes, current_theme_key and settings file, and the exception that
\* leaves the method, if any
initialize_from(tfile, sfile, old, key, fault) ==
    LET lt == load_themes(tfile, old)
        ls == load_settings(sfile, lt.themes, key, fault)
    IN  IF lt.exc # "None"
        THEN [themes |-> lt.themes, type |-> lt.type, key |-> key,
              file |-> sfile, exc |-> lt.exc]
        ELSE [themes |-> lt.themes, type |-> lt.type, key |-> ls.key,
              file |-> ls.file, exc |-> ls.exc]

initialize_result(fault) ==
    initialize_from(themesFile, settingsFile,
                    [themes |-> themes, type |-> themesType],
                    current_theme_key, fault)

\* The bookkeeping of a run of initialize that ended as `done`.
Initialized(done) ==
    /\ themes' = done.themes
    /\ themesType' = done.type
    /\ settingsFile' = done.file
    /\ loadedOk' = (loadedOk \/ done.exc = "None")
    /\ ready' = (done.exc = "None")
    /\ lastSwitched' = IF done.file = settingsFile THEN lastSwitched ELSE "None"
    /\ unsaved' = (unsaved /\ done.exc # "None")

initialize(fault) ==
    /\ pc = "idle"
    /\ Initialized(initialize_result(fault))
    /\ current_theme_key' = initialize_result(fault).key
    /\ tret' = initialize_result(fault).exc
    /\ tcall' = [op |-> "initialize", key |-> "default", fault |-> fault,
                 fresh |-> fresh, again |-> loadedOk, unsaved |-> unsaved]
    /\ tbefore' = Snapshot
    /\ fresh' = FALSE
    /\ UNCHANGED <<themesFile, pc, pending, instance, initialized>>

\* get_current_theme, lines 102-104: the new current_theme_key and what is
\* returned: the theme of that key, or the exception self.themes[key] raises
current_theme(key, loaded, type) ==
    LET k == IF key \notin loaded THEN "default" ELSE key
    IN  [key |-> k,
         result |-> IF type # "dict" THEN "TypeError"
                    ELSE IF k \in loaded THEN k
                    ELSE "KeyError"]

\* An accessor of the current theme: get_current_theme itself (role
\* "theme": the theme is returned, named here by its key), or a lookup of
\* `role` in it with a fallback; an exception of get_current_theme
\* propagates.
Accessor(op, role, fallback) ==
    /\ pc = "idle"
    /\ LET got == current_theme(current_theme_key, themes, themesType)
       IN  /\ current_theme_key' = got.key
           /\ tret' = IF got.result \in {"TypeError", "KeyError"}
                      THEN got.result
                      ELSE IF role = "theme" THEN got.result
                      ELSE theme_get(got.result, role, fallback)
    /\ tcall' = ThemeCalled(op, role, "none")
    /\ tbefore' = Snapshot
    /\ fresh' = FALSE
    /\ UNCHANGED <<themesFile, settingsFile, themes, pc, pending, loadedOk,
                   lastSwitched, unsaved, instance, initialized, themesType, ready>>

get_current_theme == Accessor("get_current_theme", "theme", "None")

\* get_color: str(theme.get(color_name, "#FFFFFF"))
get_color(color_name) == Accessor("get_color", color_name, "#FFFFFF")

\* get_category_colors: dict(theme.get("categories", {}))
get_category_colors == Accessor("get_category_colors", "categories", "{}")

\* get_available_themes: one entry per item of self.themes
get_available_themes ==
    /\ pc = "idle"
    /\ tret' = IF themesType = "dict" THEN "list" ELSE "AttributeError"
    /\ tcall' = ThemeCalled("get_available_themes", "default", "none")
    /\ tbefore' = Snapshot
    /\ fresh' = FALSE
    /\ UNCHANGED <<themesFile, settingsFile, themes, current_theme_key, pc,
                   pending, loadedOk, lastSwitched, unsaved, instance, initialized,
                   themesType, ready>>

\* switch_theme up to line 127: the checks and the in-memory switch
SwitchBegin(key) ==
    /\ pc = "idle"
    /\ tcall' = ThemeCalled("switch_theme", key, "none")
    /\ tbefore' = Snapshot
    /\ fresh' = FALSE
    /\ IF refused(key, themes)
       THEN /\ tret' = "False"
            /\ UNCHANGED <<current_theme_key, pc, pending>>
       ELSE /\ current_theme_key' = accepted_key(current_theme_key, key)
            /\ pc' = "persist"
            /\ pending' = key
            /\ tret' = "running"
    /\ UNCHANGED <<themesFile, settingsFile, themes, loadedOk, lastSwitched, unsaved,
                   instance, initialized, themesType, ready>>

\* switch_theme from line 129: the preference is written, or the write fails
SwitchPersist(fault) ==
    /\ pc = "persist"
    /\ fault = "read" => settingsFile.kind # "absent"
    /\ LET done == persist(settingsFile, pending, fault)
       IN  /\ settingsFile' = done.file
           /\ tret' = done.result
           /\ lastSwitched' =
                 IF done.result = "True" THEN pending
                 ELSE IF done.file = settingsFile THEN lastSwitched
                 ELSE "None"
           /\ unsaved' = (done.result # "True")
    /\ tcall' = ThemeCalled("switch_theme", pending, fault)
    /\ pc' = "idle"
    /\ UNCHANGED <<themesFile, themes, current_theme_key, pending, tbefore,
                   loadedOk, fresh, instance, initialized, themesType, ready>>

\* Someone replaces config/themes.toml between two calls.
EditThemes(file) ==
    /\ pc = "idle"
    /\ file # themesFile
    /\ themesFile' = file
    /\ lastSwitched' = "None"
    /\ UNCHANGED unsaved
    /\ tcall' = ThemeCalled("edit", "default", "none")
    /\ tret' = "None"
    /\ UNCHANGED <<settingsFile, themes, current_theme_key, pc, pending,
                   tbefore, loadedOk, fresh, instance, initialized,
                   themesType, ready>>

\* Someone replaces config/settings.toml between two calls.
EditSettings(file) ==
    /\ pc = "idle"
    /\ file # settingsFile
    /\ settingsFile' = file
    /\ lastSwitched' = "None"
    /\ UNCHANGED unsaved
    /\ tcall' = ThemeCalled("edit", "default", "none")
    /\ tret' = "None"
    /\ UNCHANGED <<themesFile, themes, current_theme_key, pc, pending,
                   tbefore, loadedOk, fresh, instance, initialized,
                   themesType, ready>>

\* The registry as `import theme_manager` leaves it.
Imported ==
    /\ themes = {}
    /\ themesType = "dict"
    /\ current_theme_key = "default"
    /\ instance = 1
    /\ initialized = TRUE
    /\ pc = "idle"
    /\ pending = "default"
    /\ tcall = ThemeCalled("ThemeManager", "default", "none")
    /\ tret = "None"
    /\ tbefore = [themes |-> {}, key |-> "default", file |-> settingsFile]
    /\ loadedOk = FALSE
    /\ ready = FALSE
    /\ fresh = TRUE
    /\ lastSwitched = "None"
    /\ unsaved = FALSE

ThemeInit ==
    /\ themesFile \in ThemeFiles
    /\ settingsFile \in SettingsFiles
    /\ Imported

LedgerInit(offsets) ==
    /\ rows = <<>>
    /\ seq = 0
    /\ now = Epoch
    /\ tz \in offsets
    /\ ticks = 0
    /\ call = Called("init_database", <<>>, FALSE)
    /\ ret = Returned(None)
    /\ before = <<>>
    /\ twice = FALSE
    /\ assigned = <<>>

ThemeIdle ==
    /\ themesFile = ThemesDoc({"default"})
    /\ settingsFile = SettingsAbsent
    /\ Imported

(* The colours module and the views that use it *)

\* The module constants followed here: one the app module imports, one it
\* does not, and the category table.
ColorNames == {"ACCENT_PURPLE", "WARNING", "CATEGORY_COLORS"}

\* from finance_tracker.ui.colors import (...): the names the app copies
AppColorNames == {"ACCENT_PURPLE", "CATEGORY_COLORS"}

\* the role each constant is read from
RoleOf(name) ==
    CASE name = "ACCENT_PURPLE" -> "accent_purple"
      [] name = "WARNING" -> "warning"
      [] name = "CATEGORY_COLORS" -> "categories"

\* the second argument of _theme.get in the module body
Builtin(name) ==
    CASE name = "ACCENT_PURPLE" -> "#9D4EDD"
      [] name = "WARNING" -> "#FFB703"
      [] name = "CATEGORY_COLORS" -> "{Food: #FF6B6B}"

\* the second argument of _theme.get in reload_colors
ReloadDefault(name) ==
    IF name = "CATEGORY_COLORS" THEN "{}" ELSE Builtin(name)

\* The namespace of a colours module whose body has not run to its end.
Unbound == [name \in ColorNames |-> "unbound"]

Exceptions == {"KeyError", "TypeError"}

\* A module body that reads every constant with the fallback of get_color.
module_body_white(tfile, sfile, old, key, fault) ==
    CHOOSE body \in
        UNION {{[done |-> done,
                 key |-> got.key,
                 exc |-> IF got.result \in Exceptions THEN got.result
                         ELSE "None",
                 constants |-> [name \in ColorNames |->
                                  theme_get(got.result, RoleOf(name), "#FFFFFF")]]
                  : got \in {current_theme(done.key, done.themes, done.type)}}
               : done \in {initialize_from(tfile, sfile, old, key, fault)}}
        : TRUE

\* The module body, lines 7-57: initialize() with its exceptions swallowed,
\* get_current_theme(), then one assignment per constant. `exc` is the
\* exception that leaves the body, `done` what initialize did.
module_body(tfile, sfile, old, key, fault) ==
    CHOOSE body \in
        UNION {{[done |-> done,
                 key |-> got.key,
                 exc |-> IF got.result \in Exceptions THEN got.result
                         ELSE "None",
                 constants |-> [name \in ColorNames |->
                                  theme_get(got.result, RoleOf(name), Builtin(name))]]
                  : got \in {current_theme(done.key, done.themes, done.type)}}
               : done \in {initialize_from(tfile, sfile, old, key, fault)}}
        : TRUE

\* reload_colors, lines 60-119: get_current_theme(), then one setattr per
\* constant
reloaded_colors(key, loaded, type) ==
    CHOOSE done \in
        {[key |-> got.key,
          exc |-> IF got.result \in Exceptions THEN got.result ELSE "None",
          constants |-> [name \in ColorNames |->
                           theme_get(got.result, RoleOf(name),
                                     ReloadDefault(name))]]
            : got \in {current_theme(key, loaded, type)}}
        : TRUE

\* the setattr loop of refresh_ui, and the from-import of the app module
copied(constants) == [name \in AppColorNames |-> constants[name]]

ColorsBefore == [colors |-> colors, app |-> appColors]

\* The app module is imported: it imports the colours module, whose body
\* runs, and copies the names it uses.
ImportColors(fault) ==
    /\ pc = "idle"
    /\ colors = Unbound
    /\ \E body \in {module_body(themesFile, settingsFile,
                               [themes |-> themes, type |-> themesType],
                               current_theme_key, fault)} :
           /\ Initialized(body.done)
           /\ current_theme_key' = body.key
           /\ tret' = body.exc
           /\ colors' = IF body.exc = "None" THEN body.constants ELSE colors
           /\ appColors' = IF body.exc = "None" THEN copied(body.constants)
                           ELSE appColors
           /\ tcall' = [op |-> "import", key |-> "default", fault |-> fault,
                        initialize |-> body.done.exc]
    /\ tbefore' = Snapshot
    /\ cbefore' = ColorsBefore
    /\ fresh' = FALSE
    /\ UNCHANGED <<themesFile, pc, pending, instance, initialized>>

\* colors.reload_colors()
reload_colors ==
    /\ pc = "idle"
    /\ colors # Unbound
    /\ \E done \in {reloaded_colors(current_theme_key, themes, themesType)} :
           /\ current_theme_key' = done.key
           /\ tret' = done.exc
           /\ colors' = IF done.exc = "None" THEN done.constants ELSE colors
    /\ tcall' = [op |-> "reload_colors", key |-> tcall.key, fault |-> "none",
                 after |-> tcall.op, returned |-> tret]
    /\ tbefore' = Snapshot
    /\ cbefore' = ColorsBefore
    /\ fresh' = FALSE
    /\ UNCHANGED <<themesFile, settingsFile, themes, pc, pending, loadedOk,
                   lastSwitched, unsaved, instance, initialized, themesType, ready,
                   appColors>>

\* importlib.reload(colors): the module body runs again in the namespace
\* the module already has
reload(fault) ==
    /\ pc = "idle"
    /\ colors # Unbound
    /\ \E body \in {module_body(themesFile, settingsFile,
                               [themes |-> themes, type |-> themesType],
                               current_theme_key, fault)} :
           /\ Initialized(body.done)
           /\ current_theme_key' = body.key
           /\ tret' = body.exc
           /\ colors' = IF body.exc = "None" THEN body.constants ELSE colors
           /\ tcall' = [op |-> "reload", key |-> tcall.key, fault |-> fault,
                        initialize |-> body.done.exc,
                        switched |->
                            IF /\ tcall.op = "reload_colors"
                               /\ tcall.after = "switch_theme"
                               /\ tret = "None"
                            THEN tcall.returned ELSE "None"]
    /\ tbefore' = Snapshot
    /\ cbefore' = ColorsBefore
    /\ fresh' = FALSE
    /\ UNCHANGED <<themesFile, pc, pending, instance, initialized, appColors>>

\* A refresh_ui without the setattr loop: the app module keeps its copies.
refresh_ui_no_copy(key, sfile, fault) ==
    CHOOSE ui \in
        UNION {{IF first.exc # "None"
                THEN [exc |-> first.exc, key |-> first.key, colors |-> colors,
                      app |-> appColors, ran |-> FALSE,
                      done |-> [themes |-> themes, type |-> themesType,
                                key |-> first.key, file |-> sfile,
                                exc |-> "None"]]
                ELSE [exc |-> body.exc, key |-> body.key,
                      colors |-> IF body.exc # "None" THEN first.constants
                                 ELSE body.constants,
                      app |-> appColors, ran |-> TRUE, done |-> body.done]
                  : body \in {module_body(themesFile, sfile,
                                          [themes |-> themes,
                                           type |-> themesType],
                                          first.key, fault)}}
               : first \in {reloaded_colors(key, themes, themesType)}}
        : TRUE

\* refresh_ui, lines 599-618, on a registry whose active key is `key` and a
\* preference file `sfile`: reload_colors(), importlib.reload(colors), then
\* the setattr loop; an exception of either call ends it there.
refresh_ui(key, sfile, fault) ==
    CHOOSE ui \in
        UNION {{IF first.exc # "None"
                THEN [exc |-> first.exc, key |-> first.key, colors |-> colors,
                      app |-> appColors, ran |-> FALSE,
                      done |-> [themes |-> themes, type |-> themesType,
                                key |-> first.key, file |-> sfile,
                                exc |-> "None"]]
                ELSE IF body.exc # "None"
                THEN [exc |-> body.exc, key |-> body.key,
                      colors |-> first.constants, app |-> appColors,
                      ran |-> TRUE, done |-> body.done]
                ELSE [exc |-> "None", key |-> body.key,
                      colors |-> body.constants,
                      app |-> copied(body.constants), ran |-> TRUE,
                      done |-> body.done]
                  : body \in {module_body(themesFile, sfile,
                                          [themes |-> themes,
                                           type |-> themesType],
                                          first.key, fault)}}
               : first \in {reloaded_colors(key, themes, themesType)}}
        : TRUE

\* apply_theme of the settings view, lines 582-589, for the key the picker
\* holds: switch_theme(theme_key) and, when it returns True, refresh_ui().
\* `fault` is the fault of the preference write, `again` that of the
\* initialize() the module reload runs.
apply_theme(theme_key, fault, again) ==
    /\ pc = "idle"
    /\ colors # Unbound
    /\ fault = "read" => settingsFile.kind # "absent"
    /\ tbefore' = Snapshot
    /\ cbefore' = ColorsBefore
    /\ fresh' = FALSE
    /\ IF refused(theme_key, themes)
       THEN /\ tret' = "False"
            /\ tcall' = [op |-> "apply_theme", key |-> theme_key,
                         fault |-> fault, switch |-> "refused"]
            /\ UNCHANGED <<settingsFile, themes, themesType,
                           current_theme_key, loadedOk, ready, lastSwitched, unsaved,
                           colors, appColors>>
       ELSE \E saved \in {persist(settingsFile, theme_key, fault)} :
            \E ui \in {refresh_ui(accepted_key(current_theme_key, theme_key),
                                  saved.file, again)} :
                IF saved.result # "True"
                THEN /\ tret' = "False"
                     /\ tcall' = [op |-> "apply_theme", key |-> theme_key,
                                  fault |-> fault, switch |-> "not saved"]
                     /\ current_theme_key' =
                            accepted_key(current_theme_key, theme_key)
                     /\ settingsFile' = saved.file
                     /\ lastSwitched' = IF saved.file = settingsFile
                                        THEN lastSwitched ELSE "None"
                     /\ unsaved' = TRUE
                     /\ UNCHANGED <<themes, themesType, loadedOk, ready,
                                    colors, appColors>>
                ELSE /\ tret' = ui.exc
                     /\ tcall' = [op |-> "apply_theme", key |-> theme_key,
                                  fault |-> fault, switch |-> "True"]
                     /\ current_theme_key' = ui.key
                     /\ settingsFile' = ui.done.file
                     /\ themes' = ui.done.themes
                     /\ themesType' = ui.done.type
                     /\ loadedOk' = (loadedOk \/ (ui.ran /\ ui.done.exc = "None"))
                     /\ ready' = IF ui.ran THEN ui.done.exc = "None" ELSE ready
                     /\ lastSwitched' = IF ui.done.file = saved.file
                                        THEN theme_key ELSE "None"
                     /\ unsaved' = FALSE
                     /\ colors' = ui.colors
                     /\ appColors' = ui.app
    /\ UNCHANGED <<themesFile, pc, pending, instance, initialized>>

\* Nothing of the presentation layer is imported yet.
NotImported ==
    /\ colors = Unbound
    /\ appColors = copied(Unbound)
    /\ cbefore = [colors |-> Unbound, app |-> copied(Unbound)]

----------------------------------------------------------------------------
(* The add-transaction form *)

\* What the amount entry may hold, as sequences of characters.
AmountTexts ==
    {<<" ">>, <<" ", "5", "0", " ">>, <<"-", "5">>, <<"0">>, <<"a">>,
     <<"n", "a", "n">>}

FormKinds == {"income", "Income"}

FormCategories == {"Food", "Rent"}

\* What the description entry may hold: they stand for a text of 500 and
\* one of 501 characters.
FormDescriptions == {"x * 500", "x * 501"}

MaxDescription == 500

\* len(description)
len(description) ==
    CASE description = "x * 500" -> 500
      [] description = "x * 501" -> 501

\* str.strip(): leading and trailing blanks removed
RECURSIVE strip(_)
strip(text) ==
    IF text = <<>> THEN text
    ELSE IF Head(text) = " " THEN strip(Tail(text))
    ELSE IF text[Len(text)] = " " THEN strip(SubSeq(text, 1, Len(text) - 1))
    ELSE text

Digit(c) ==
    CASE c = "0" -> 0 [] c = "1" -> 1 [] c = "2" -> 2 [] c = "3" -> 3
      [] c = "4" -> 4 [] c = "5" -> 5 [] c = "6" -> 6 [] c = "7" -> 7
      [] c = "8" -> 8 [] c = "9" -> 9 [] OTHER -> -1

RECURSIVE Decimal(_, _)
Decimal(text, acc) ==
    IF text = <<>> THEN acc
    ELSE Decimal(Tail(text), 10 * acc + Digit(Head(text)))

AllDigits(text) ==
    /\ text # <<>>
    /\ \A i \in 1..Len(text) : Digit(text[i]) >= 0

\* A float: not-a-number, or the number n.
Float(n) == [nan |-> FALSE, n |-> n]

NaN == [nan |-> TRUE, n |-> 0]

\* float(text): surrounding blanks are ignored; a decimal with an optional
\* sign is its value, "nan" is not-a-number, anything else raises
\* ValueError
float(text) ==
    LET t == strip(text)
    IN  IF t = <<"n", "a", "n">> THEN [raised |-> FALSE, value |-> NaN]
        ELSE IF AllDigits(t)
        THEN [raised |-> FALSE, value |-> Float(Decimal(t, 0))]
        ELSE IF t # <<>> /\ Head(t) = "-" /\ AllDigits(Tail(t))
        THEN [raised |-> FALSE, value |-> Float(0 - Decimal(Tail(t), 0))]
        ELSE [raised |-> TRUE, value |-> NaN]

\* amount <= 0: every comparison with not-a-number is False
le_zero(amount) == ~amount.nan /\ amount.n <= 0

\* the keys of the app module's CATEGORY_COLORS
category_keys(table) ==
    IF table \in {"{Food: #EF4444}", "{Food: #FF6B6B}"} THEN {"Food"} ELSE {}

\* amount REAL NOT NULL: sqlite3 binds not-a-number as NULL, and the INSERT
\* fails
not_null_violated(amount) == amount.nan

\* the amount as the store is handed it
bound(amount) == IF amount.nan THEN "nan" ELSE amount.n

Submitted(form, text, kind, category, description, outcome, amount) ==
    [op |-> "submit_transaction", key |-> "default", fault |-> "none",
     form |-> form, text |-> text, type |-> kind, category |-> category,
     description |-> description, table |-> rows, outcome |-> outcome,
     amount |-> amount]

\* What a submission that is not handed to the store leaves alone.
NotAdded == UNCHANGED ledgerVars

FormFrame ==
    UNCHANGED <<themesFile, settingsFile, themes, current_theme_key, pc,
                pending, tbefore, loadedOk, fresh, lastSwitched, instance,
                initialized, themesType, ready, unsaved, uiVars>>

\* What a form does with a submission: the amount it parsed and where the
\* handler ended.
Handled(amount, outcome) == [amount |-> amount, outcome |-> outcome]

\* submit_transaction of finance_tracker/app.py, lines 345-399, up to the
\* call of db.add_transaction
validate(text, kind, category, description) ==
    CHOOSE handled \in
        UNION {{Handled(parsed.value,
                    IF amount_str = <<>> THEN "empty amount"
                    ELSE IF parsed.raised THEN "ValueError"
                    ELSE IF le_zero(parsed.value) THEN "non-positive amount"
                    ELSE IF kind \notin {"income", "expense"}
                         THEN "invalid type"
                    ELSE IF category \notin
                               category_keys(appColors["CATEGORY_COLORS"])
                         THEN "invalid category"
                    ELSE IF len(description) > MaxDescription THEN "too long"
                    ELSE "add_transaction")
                  : parsed \in {float(amount_str)}}
               : amount_str \in {strip(text)}}
        : TRUE

\* submit_transaction of main.py, lines 305-319, up to the call of
\* db.add_transaction
main_validate(text) ==
    CHOOSE handled \in
        {Handled(parsed.value,
             IF parsed.raised THEN "ValueError"
             ELSE IF le_zero(parsed.value) THEN "ValueError"
             ELSE "add_transaction")
           : parsed \in {float(text)}}
        : TRUE

\* The rest of either handler: the transaction is handed to the store, or
\* the handler has returned.
Submit(form, handled, text, kind, category, description, fault) ==
    /\ pc = "idle"
    /\ tcall' = Submitted(form, text, kind, category, description,
                          handled.outcome, handled.amount)
    /\ IF handled.outcome = "add_transaction"
       THEN /\ add_transaction(kind, category, bound(handled.amount),
                               description,
                               fault \/ not_null_violated(handled.amount))
            /\ tret' = IF fault \/ not_null_violated(handled.amount)
                       THEN "False" ELSE "True"
       ELSE /\ NotAdded
            /\ tret' = "None"
    /\ FormFrame

submit_transaction(text, kind, category, description, fault) ==
    \E handled \in {validate(text, kind, category, description)} :
        Submit("app", handled, text, kind, category, description, fault)

main_submit_transaction(text, kind, category, description, fault) ==
    \E handled \in {main_validate(text)} :
        Submit("main", handled, text, kind, category, description, fault)

----------------------------------------------------------------------------
(* The Ledger Store on a host whose local time is UTC, calls a slot apart. *)
Init == LedgerInit({0}) /\ ThemeIdle /\ NotImported

Next ==
    \/ init_database /\ UNCHANGED <<themeVars, uiVars>>
    \/ \E k \in Kinds, a \in Amounts, d \in Descriptions, fault \in BOOLEAN :
            add_transaction(k, "Food", a, d, fault) /\ UNCHANGED <<themeVars, uiVars>>
    \/ \E id \in Ids, fault \in BOOLEAN :
            delete_transaction(id, fault) /\ UNCHANGED <<themeVars, uiVars>>
    \/ \E limit \in Limits, fault \in BOOLEAN :
            GetTransactions(limit, fault) /\ UNCHANGED <<themeVars, uiVars>>
    \/ \E fault \in BOOLEAN : GetBalance(fault) /\ UNCHANGED <<themeVars, uiVars>>
    \/ \E fault \in BOOLEAN : GetStatistics(fault) /\ UNCHANGED <<themeVars, uiVars>>
    \/ \E d \in OneSlot : Tick(d) /\ UNCHANGED <<themeVars, uiVars>>

Spec == Init /\ [][Next]_vars

(* The statistics window: hosts east and west of UTC, calls up to a month  *)
(* apart.                                                                  *)
StatsInit == LedgerInit(TzOffsets) /\ ThemeIdle /\ NotImported

StatsNext ==
    \/ \E k \in StatKinds, c \in Categories, a \in StatAmounts, d \in Descriptions :
            add_transaction(k, c, a, d, FALSE) /\ UNCHANGED <<themeVars, uiVars>>
    \/ GetStatistics(FALSE) /\ UNCHANGED <<themeVars, uiVars>>
    \/ \E d \in Advances : Tick(d) /\ UNCHANGED <<themeVars, uiVars>>

StatsSpec == StatsInit /\ [][StatsNext]_vars

(* The Theme Registry over every theme file and preference file above.     *)
ThemeSpecInit == LedgerInit({0}) /\ ThemeInit /\ NotImported

ThemeNext ==
    \/ Restart /\ UNCHANGED <<ledgerVars, uiVars>>
    \/ Construct /\ UNCHANGED <<ledgerVars, uiVars>>
    \/ \E fault \in IoFaults : initialize(fault) /\ UNCHANGED <<ledgerVars, uiVars>>
    \/ get_current_theme /\ UNCHANGED <<ledgerVars, uiVars>>
    \/ \E role \in Roles : get_color(role) /\ UNCHANGED <<ledgerVars, uiVars>>
    \/ get_category_colors /\ UNCHANGED <<ledgerVars, uiVars>>
    \/ get_available_themes /\ UNCHANGED <<ledgerVars, uiVars>>
    \/ \E key \in Keys : SwitchBegin(key) /\ UNCHANGED <<ledgerVars, uiVars>>
    \/ \E fault \in IoFaults : SwitchPersist(fault) /\ UNCHANGED <<ledgerVars, uiVars>>

ThemeSpec == ThemeSpecInit /\ [][ThemeNext]_vars

(* The Theme Registry while the two files are edited between calls.        *)
EditedThemeFiles ==
    {ThemesDoc({"default"}), ThemesDoc({"default", "ocean_breeze"}),
     ThemesDoc({"ocean_breeze"}), ThemesDoc({"solarized"}),
     ThemesText("default")}

EditedSettingsFiles ==
    {SettingsAbsent, SettingsMalformed,
     Doc(Table("ocean_breeze", TRUE), TRUE),
     Doc(Table("nonexistent", FALSE), FALSE)}

ReloadInit ==
    /\ LedgerInit({0})
    /\ themesFile = ThemesDoc({"default", "ocean_breeze"})
    /\ settingsFile = SettingsAbsent
    /\ Imported
    /\ NotImported

ReloadNext ==
    \/ Restart /\ UNCHANGED <<ledgerVars, uiVars>>
    \/ Construct /\ UNCHANGED <<ledgerVars, uiVars>>
    \/ \E fault \in {"none", "open"} : initialize(fault) /\ UNCHANGED <<ledgerVars, uiVars>>
    \/ get_current_theme /\ UNCHANGED <<ledgerVars, uiVars>>
    \/ \E role \in Roles : get_color(role) /\ UNCHANGED <<ledgerVars, uiVars>>
    \/ get_category_colors /\ UNCHANGED <<ledgerVars, uiVars>>
    \/ get_available_themes /\ UNCHANGED <<ledgerVars, uiVars>>
    \/ \E key \in {"default", "ocean_breeze", "nonexistent"} :
            SwitchBegin(key) /\ UNCHANGED <<ledgerVars, uiVars>>
    \/ \E fault \in {"none", "open"} : SwitchPersist(fault) /\ UNCHANGED <<ledgerVars, uiVars>>
    \/ \E file \in EditedThemeFiles : EditThemes(file) /\ UNCHANGED <<ledgerVars, uiVars>>
    \/ \E file \in EditedSettingsFiles : EditSettings(file) /\ UNCHANGED <<ledgerVars, uiVars>>

ReloadSpec == ReloadInit /\ [][ReloadNext]_vars

(* The colours module and the settings view over the Theme Registry, while *)
(* the two files are edited between calls.                                 *)
UiThemeFiles ==
    {ThemesDoc({"default", "ocean_breeze"}), ThemesDoc({"default"}),
     ThemesDoc({"ocean_breeze"})}

UiKeys == {"default", "ocean_breeze", "nonexistent"}

UiFaults == {"none", "open"}

UiInit ==
    /\ LedgerInit({0})
    /\ themesFile \in {ThemesDoc({"default", "ocean_breeze"}), ThemesMissing}
    /\ settingsFile = SettingsAbsent
    /\ Imported
    /\ NotImported

UiNext ==
    \/ \E fault \in UiFaults : ImportColors(fault) /\ UNCHANGED ledgerVars
    \/ reload_colors /\ UNCHANGED ledgerVars
    \/ \E fault \in UiFaults : reload(fault) /\ UNCHANGED ledgerVars
    \/ \E key \in UiKeys, fault \in UiFaults, again \in UiFaults :
            apply_theme(key, fault, again) /\ UNCHANGED ledgerVars
    \/ initialize("none") /\ UNCHANGED <<ledgerVars, uiVars>>
    \/ get_current_theme /\ UNCHANGED <<ledgerVars, uiVars>>
    \/ \E key \in UiKeys : SwitchBegin(key) /\ UNCHANGED <<ledgerVars, uiVars>>
    \/ \E fault \in UiFaults : SwitchPersist(fault) /\ UNCHANGED <<ledgerVars, uiVars>>
    \/ \E file \in UiThemeFiles : EditThemes(file) /\ UNCHANGED <<ledgerVars, uiVars>>

UiSpec == UiInit /\ [][UiNext]_vars

(* The add-transaction forms over the Ledger Store, the app module holding *)
(* the colours of the default theme.                                       *)
FormInit ==
    /\ LedgerInit({0})
    /\ ThemeIdle
    /\ colors = [name \in ColorNames |->
                    theme_get("default", RoleOf(name), Builtin(name))]
    /\ appColors = copied(colors)
    /\ cbefore = [colors |-> Unbound, app |-> copied(Unbound)]

FormNext ==
    \/ \E text \in AmountTexts, kind \in FormKinds, category \in FormCategories,
          description \in FormDescriptions :
            submit_transaction(text, kind, category, description, FALSE)
    \/ \E text \in AmountTexts, kind \in FormKinds, category \in FormCategories,
          description \in FormDescriptions :
            main_submit_transaction(text, kind, category, description, FALSE)

FormSpec == FormInit /\ [][FormNext]_vars

----------------------------------------------------------------------------
(* Reference notions the claims are stated in *)

\* The instant an ISO datetime text denotes, in slots.
ParseIso(d) == d[1] * SlotsPerDay + d[2]

\* The UTC instant a transaction occurred at (its text is local time).
OccurredAt(r) == ParseIso(r.date) - tz

\* The sum of the amounts of a set of transactions.
RECURSIVE AmountSum(_)
AmountSum(S) ==
    IF S = {} THEN 0
    ELSE LET r == CHOOSE x \in S : TRUE IN r.amount + AmountSum(S \ {r})

OfKind(S, kind) == {r \in S : r.type = kind}

\* Every order the rows of the table could have been stored in.
Reorderings(rs) ==
    {s \in [1..Len(rs) -> Range(rs)] : Range(s) = Range(rs)}

IdsOf(rs) == {rs[i].id : i \in 1..Len(rs)}

Answered(op) == call.op = op /\ ~call.fault

----------------------------------------------------------------------------
(* C1: after any sequence of successful adds and deletes, get_balance      *)
(* returns the sum of the amounts of the stored income transactions minus  *)
(* the sum of the amounts of the stored expense transactions, whatever     *)
(* their dates, and the same for every order the rows could be stored in.  *)
C1_Balance ==
    /\ Answered("get_balance") =>
          /\ ~ret.raised
          /\ ret.value = AmountSum(OfKind(Range(rows), "income"))
                         - AmountSum(OfKind(Range(rows), "expense"))
    /\ \A s \in Reorderings(rows) : get_balance(s) = get_balance(rows)

C1_Witness ==
    /\ Answered("get_balance")
    /\ Len(rows) = 2
    /\ rows[1].type = "income" /\ rows[1].amount = 2000
    /\ rows[2].type = "expense" /\ rows[2].amount = 50
    /\ ret.value = 1950

(* C2: delete_transaction is idempotent: without a storage fault it        *)
(* returns True, removes the row with that id and no other, and a second   *)
(* delete of the same id returns True and leaves the table as the first    *)
(* left it; deleting an id that is not in the table changes nothing.       *)
C2_DeleteIdempotent ==
    Answered("delete_transaction") =>
        LET id == call.args[1] IN
        /\ ret = Returned(TRUE)
        /\ Range(rows) = {r \in Range(before) : r.id # id}
        /\ Len(rows) >= Len(before) - 1
        /\ id \notin IdsOf(before) => rows = before
        /\ twice => rows = before

C2_Witness ==
    /\ Answered("delete_transaction")
    /\ twice
    /\ call.args[1] <= seq
    /\ Len(rows) = 1
    /\ ret = Returned(TRUE)

(* C3 as stated: for every limit, get_transactions returns no more than    *)
(* `limit` rows, in descending order of date (a negative limit read in the *)
(* claim's favour, as allowing no row at all).                             *)
C3_AsStated ==
    Answered("get_transactions") =>
        /\ ~ret.raised
        /\ Len(ret.value) <= (IF call.args[1] < 0 THEN 0 ELSE call.args[1])
        /\ \A i, j \in 1..Len(ret.value) :
              i < j => ParseIso(ret.value[i].date) >= ParseIso(ret.value[j].date)

(* C3 amended: for every limit >= 0, get_transactions returns              *)
(* min(limit, number of rows) distinct rows of the table, so no more than  *)
(* `limit`; for a negative limit it returns all of them; in both cases in  *)
(* descending order of date, and no omitted row is more recent than a      *)
(* returned one.                                                           *)
C3_ListLimited ==
    Answered("get_transactions") =>
        LET limit == call.args[1]
            answer == ret.value
        IN  /\ ~ret.raised
            /\ Range(answer) \subseteq Range(rows)
            /\ Cardinality(Range(answer)) = Len(answer)
            /\ limit >= 0 =>
                  /\ Len(answer) <= limit
                  /\ Len(answer) = IF limit < Len(rows) THEN limit ELSE Len(rows)
            /\ limit < 0 => Len(answer) = Len(rows)
            /\ \A i, j \in 1..Len(answer) :
                  i < j => ParseIso(answer[i].date) >= ParseIso(answer[j].date)
            /\ \A r \in Range(rows) \ Range(answer) :
                  \A i \in 1..Len(answer) :
                      ParseIso(answer[i].date) >= ParseIso(r.date)

C3_Witness ==
    /\ Answered("get_transactions")
    /\ call.args[1] = 1
    /\ Len(rows) = 2
    /\ rows[1].date # rows[2].date
    /\ ret.value = <<rows[2]>>

(* C6: on an empty table (nothing added yet, or everything deleted)        *)
(* get_balance returns 0, get_statistics returns two zero sums and an      *)
(* empty top_categories list, get_transactions returns an empty list, and  *)
(* none of them raises (the storage layer not faulting).                   *)
C6_EmptyLedger ==
    rows = <<>> =>
        /\ Answered("get_balance") => ~ret.raised /\ ret.value = 0
        /\ Answered("get_statistics") =>
              /\ ~ret.raised
              /\ ret.value = [monthly_income |-> 0, monthly_expense |-> 0,
                              top_categories |-> <<>>]
        /\ Answered("get_transactions") => ~ret.raised /\ ret.value = <<>>

C6_Witness ==
    /\ rows = <<>>
    /\ seq = MaxAdds
    /\ Answered("get_statistics")
    /\ ret.value.top_categories = <<>>

----------------------------------------------------------------------------
(* The 30-day window of get_statistics, checked under StatsSpec *)

\* The transactions that occurred at or after `at` minus 30 days.
RecentSince(at) ==
    {r \in Range(rows) : OccurredAt(r) >= at - WindowDays * SlotsPerDay}

(* C4: get_statistics sums exactly the transactions with                   *)
(* occurred_at >= now - 30 days: one older than 30 days is in neither sum, *)
(* one within the last 30 days is in the sum of its kind, however long ago *)
(* it was added.                                                           *)
C4_Window ==
    Answered("get_statistics") =>
        /\ ret.value.monthly_income
              = AmountSum(OfKind(RecentSince(call.at), "income"))
        /\ ret.value.monthly_expense
              = AmountSum(OfKind(RecentSince(call.at), "expense"))

(* C5: top_categories has at most 5 entries, each an expense category with *)
(* the sum of its expense amounts of the last 30 days, in descending order *)
(* of that sum; no category left out has a larger sum than a listed one,   *)
(* and income transactions contribute nothing.                             *)
C5_TopCategories ==
    Answered("get_statistics") =>
        LET top == ret.value.top_categories
            spent == OfKind(RecentSince(call.at), "expense")
            Total(c) == AmountSum({r \in spent : r.category = c})
            listed == {top[i][1] : i \in 1..Len(top)}
        IN  /\ Len(top) <= TopLimit
            /\ Cardinality(listed) = Len(top)
            /\ listed \subseteq {r.category : r \in spent}
            /\ \A i \in 1..Len(top) : top[i][2] = Total(top[i][1])
            /\ \A i, j \in 1..Len(top) : i < j => top[i][2] >= top[j][2]
            /\ \A c \in {r.category : r \in spent} \ listed :
                  \A i \in 1..Len(top) : Total(c) <= top[i][2]
            /\ Len(top) < TopLimit => listed = {r.category : r \in spent}

----------------------------------------------------------------------------
(* The Theme Registry claims, checked under ThemeSpec *)

\* The identifier grammar [a-z0-9_]+
MatchesGrammar(key) ==
    LET text == KeyText(key)
    IN  Len(text) >= 1 /\ \A i \in 1..Len(text) : text[i] \in IdChars

\* The theme key a preference file holds, if it holds one.
StoredKey(file) ==
    IF file.kind = "doc" /\ file.appearance.kind = "table"
    THEN file.appearance.theme
    ELSE NoEntry

SwitchCalled == tcall.op = "switch_theme"

SwitchAccepted == SwitchCalled /\ ~refused(tcall.key, tbefore.themes)

(* C7: switch_theme refuses every key that does not match [a-z0-9_]+ and   *)
(* every key that is not in the loaded theme set: it returns False and the *)
(* loaded set, the active key and the preference file are as before.       *)
C7_Rejects ==
    (SwitchCalled /\ (~MatchesGrammar(tcall.key) \/ tcall.key \notin tbefore.themes))
        => /\ tret = "False"
           /\ themes = tbefore.themes
           /\ current_theme_key = tbefore.key
           /\ settingsFile = tbefore.file

(* C8: after switch_theme(k) returned True, initialize() as the first call *)
(* of a new process, with both files as that call left them and no file    *)
(* operation failing, sets current_theme_key to k.                         *)
C8_RoundTrip ==
    (tcall.op = "initialize" /\ lastSwitched # "None")
        => (tcall.fresh /\ tcall.fault = "none"
                => current_theme_key = lastSwitched)

(* C9 as stated: when switch_theme accepts a key and persisting fails, it  *)
(* returns False, the active key is the new key, the preference file is as *)
(* before, and the active key differs from the persisted one.              *)
C9_AsStated ==
    (SwitchAccepted /\ pc = "idle" /\ tret # "True")
        => /\ tret = "False"
           /\ current_theme_key = tcall.key
           /\ settingsFile = tbefore.file
           /\ StoredKey(settingsFile) # current_theme_key

(* C9 amended: when switch_theme accepts a key and persisting fails, it    *)
(* returns False without raising and the active key is the new key.  The   *)
(* preference file is as before, unless the failure is in the write after  *)
(* the file was opened, which leaves it truncated.  While the file is as   *)
(* before, the active key differs from the persisted one exactly when the  *)
(* file did not already hold the new key.                                  *)
C9_FailedPersist ==
    (SwitchAccepted /\ pc = "idle" /\ tret # "True")
        => /\ tret = "False"
           /\ current_theme_key = tcall.key
           /\ settingsFile \in {tbefore.file, EmptyDoc}
           /\ settingsFile # tbefore.file => tcall.fault = "write"
           /\ settingsFile = tbefore.file =>
                 (StoredKey(settingsFile) # current_theme_key
                    <=> StoredKey(tbefore.file) # tcall.key)

C9_Witness ==
    /\ SwitchAccepted /\ pc = "idle" /\ tret = "False"
    /\ tcall.fault = "open"
    /\ tbefore.key = "default"
    /\ current_theme_key = "ocean_breeze"
    /\ StoredKey(settingsFile) = "default"

(* C10: when switch_theme accepts a key and the preference is written, it  *)
(* returns True and the active key and the persisted key are both that     *)
(* key.  The active key is set before the file is written: between the two *)
(* steps the active key is the new one and the file is the old one, and    *)
(* the file is never changed while the active key is not yet the new key.  *)
C10_SwitchOrder ==
    /\ pc = "persist" =>
          /\ SwitchAccepted
          /\ current_theme_key = pending
          /\ settingsFile = tbefore.file
    /\ (SwitchCalled /\ pc = "idle" /\ tret = "True") =>
          /\ SwitchAccepted
          /\ current_theme_key = tcall.key
          /\ StoredKey(settingsFile) = tcall.key
    /\ (SwitchAccepted /\ pc = "idle" /\ tcall.fault = "none"
            /\ tbefore.file.kind \in {"absent", "doc"}
            /\ (tbefore.file.kind = "doc" => tbefore.file.appearance.kind # "scalar"))
          => tret = "True"
    /\ (SwitchCalled /\ settingsFile # tbefore.file) =>
          current_theme_key = tcall.key

C10_Witness ==
    /\ SwitchCalled /\ pc = "idle" /\ tret = "True"
    /\ tbefore.key = "default"
    /\ StoredKey(tbefore.file) = "default"
    /\ current_theme_key = "ocean_breeze"
    /\ StoredKey(settingsFile) = "ocean_breeze"

----------------------------------------------------------------------------
(* Loading, checked under ThemeSpec (the files change only through the     *)
(* registry) and under ReloadSpec (the files are also edited between       *)
(* calls)                                                                  *)

InitializeCalled == tcall.op = "initialize"

\* The theme file defines themes and none of them is keyed `default`.
LacksDefault(file) == file.kind = "themes" /\ "default" \notin file.keys

\* The theme file is a table of themes with a `default` entry.
ValidThemes(file) == file.kind = "themes" /\ "default" \in file.keys

(* C11: when the theme file has no `default` entry, initialize() raises    *)
(* and the loaded theme set and the active key are as before the call.     *)
C11_FailsClean ==
    (InitializeCalled /\ LacksDefault(themesFile))
        => /\ tret = "ValueError"
           /\ themes = tbefore.themes
           /\ current_theme_key = tbefore.key

(* C12: in every state reached after initialize() returned normally, by   *)
(* any calls of switch_theme and of the accessors, the loaded theme set is *)
(* a table of themes with one keyed `default`, and the active key is a key *)
(* of that table.                                                          *)
C12_DefaultLoaded ==
    ready => /\ themesType = "dict"
             /\ "default" \in themes
             /\ current_theme_key \in themes

(* C13 as stated: an initialize() after the first one that returned       *)
(* normally in this process leaves the loaded theme set and the active key *)
(* unchanged, whatever the two files hold by then.                         *)
C13_AsStated ==
    (InitializeCalled /\ tcall.again)
        => /\ themes = tbefore.themes
           /\ current_theme_key = tbefore.key

(* C13 amended: initialize() loads on every invocation.  An invocation     *)
(* after the first successful one that returns normally leaves the loaded  *)
(* theme set equal to the themes the theme file defines at that moment,    *)
(* and the active key equal to the key the preference file held at that    *)
(* moment if it is a loaded theme, and to `default` otherwise.             *)
C13_Reloads ==
    (InitializeCalled /\ tcall.again /\ tret = "None")
        => /\ themesFile.kind = "themes"
                => themesType = "dict" /\ themes = themesFile.keys
           /\ themesFile.kind = "text"
                => themesType = "str" /\ "default" \in themes
           /\ current_theme_key =
                 IF StoredKey(tbefore.file) \in themes
                 THEN StoredKey(tbefore.file)
                 ELSE "default"

C13_Witness ==
    /\ InitializeCalled /\ tcall.again /\ tret = "None"
    /\ tbefore.themes = {"default"}
    /\ themes = {"default", "ocean_breeze"}
    /\ tbefore.key = "default"
    /\ current_theme_key = "ocean_breeze"

(* C14: the process holds one ThemeManager object: every ThemeManager()    *)
(* returns it, and one made after initialize or switch_theme leaves its    *)
(* loaded theme set and its active key as they were.                       *)
C14_Singleton ==
    /\ instance = 1
    /\ initialized
    /\ tcall.op = "construct" =>
          /\ themes = tbefore.themes
          /\ current_theme_key = tbefore.key

C14_Witness ==
    /\ tcall.op = "construct"
    /\ themes = {"default", "ocean_breeze"}
    /\ current_theme_key = "ocean_breeze"
    /\ lastSwitched = "ocean_breeze"

----------------------------------------------------------------------------
(* The Ledger Store as a set of transactions, checked under Spec *)

Mutation == call.op \in {"add_transaction", "delete_transaction"}

\* The transactions the last call created.
Created == Range(rows) \ Range(before)

(* C15: when the storage layer faults under add_transaction or             *)
(* delete_transaction, the call returns False, raises nothing, and the     *)
(* stored transactions are those stored before the call.                   *)
C15_FaultReturnsFalse ==
    (Mutation /\ call.fault)
        => /\ ~ret.raised
           /\ ret.value = FALSE
           /\ rows = before

C15_Witness ==
    /\ call.op = "delete_transaction" /\ call.fault
    /\ call.args[1] \in IdsOf(before)
    /\ ~ret.raised /\ ret.value = FALSE
    /\ Len(rows) = 2

(* C16: a successful add_transaction returns True and stores exactly one   *)
(* more transaction, with the type, category, amount and description given *)
(* and with date and created_at both the instant of the call; and          *)
(* get_transactions with a limit of at least the number of stored          *)
(* transactions returns every stored transaction.                          *)
C16_AddStoresOne ==
    /\ (call.op = "add_transaction" /\ ~call.fault)
          => /\ ~ret.raised /\ ret.value = TRUE
             /\ Len(rows) = Len(before) + 1
             /\ Cardinality(Created) = 1
             /\ \A r \in Created :
                   /\ <<r.type, r.category, r.amount, r.description>> = call.args
                   /\ ParseIso(r.date) - tz = call.at
                   /\ ParseIso(r.created_at) - tz = call.at
    /\ (Answered("get_transactions") /\ call.args[1] >= Len(rows))
          => /\ Len(ret.value) = Len(rows)
             /\ Range(ret.value) = Range(rows)

C16_Witness ==
    /\ call.op = "add_transaction" /\ ~call.fault
    /\ call.args = <<"expense", "Food", 50, "lunch">>
    /\ call.at > Epoch
    /\ Len(before) = 1
    /\ Len(rows) = 2

(* C17: the ids of the stored transactions are distinct, and every         *)
(* successful add_transaction is given an id that no earlier one was       *)
(* given, whether or not that transaction has been deleted since.          *)
C17_IdsNeverReused ==
    /\ \A i, j \in 1..Len(rows) : rows[i].id = rows[j].id => i = j
    /\ \A i, j \in 1..Len(assigned) : assigned[i] = assigned[j] => i = j
    /\ IdsOf(rows) \subseteq Range(assigned)
    /\ (call.op = "add_transaction" /\ ~call.fault)
          => \A r \in Created : r.id = assigned[Len(assigned)]

C17_Witness ==
    /\ call.op = "add_transaction" /\ ~call.fault
    /\ before = <<>>
    /\ Len(assigned) = 2
    /\ IdsOf(rows) = {assigned[2]}

(* C18: add_transaction leaves every transaction already stored as it     *)
(* was, delete_transaction(id) removes no transaction but the one with     *)
(* that id, and init_database, get_transactions, get_balance and           *)
(* get_statistics leave the stored transactions unchanged.                 *)
C18_Frame ==
    /\ call.op = "add_transaction"
          => /\ Len(rows) >= Len(before)
             /\ SubSeq(rows, 1, Len(before)) = before
    /\ call.op = "delete_transaction"
          => /\ Range(rows) \subseteq Range(before)
             /\ \A r \in Range(before) : r.id # call.args[1] => r \in Range(rows)
    /\ ~Mutation => rows = before

C18_Witness ==
    /\ call.op = "delete_transaction" /\ ~call.fault
    /\ Len(before) = 2
    /\ Len(rows) = 1
    /\ rows[1].id # call.args[1]

----------------------------------------------------------------------------
(* The accessors, checked under ReloadSpec, and the loading of the         *)
(* preference, checked under ThemeSpec                                     *)

Accessors ==
    {"get_current_theme", "get_color", "get_category_colors",
     "get_available_themes"}

(* C19: once initialize() has returned normally in the process, no call of *)
(* get_current_theme, get_color, get_category_colors or                    *)
(* get_available_themes changes the loaded theme set or the active key.    *)
C19_AccessorsReadOnly ==
    (tcall.op \in Accessors /\ loadedOk)
        => /\ themes = tbefore.themes
           /\ current_theme_key = tbefore.key

\* The preference file cannot be read as a document with a theme key:
\* it is not TOML, its `appearance` entry is not a table, or its `theme`
\* entry is an array.
Unreadable(file) ==
    \/ file.kind = "malformed"
    \/ file.kind = "doc" /\ file.appearance.kind = "scalar"
    \/ StoredKey(file) = Unhashable

(* C20 as stated: initialize() with a valid theme file and no I/O failure: *)
(* if the preference file is absent it is created holding `default` and    *)
(* the active key is default; if it holds no loaded theme's key the active *)
(* key is default and nothing is raised; otherwise the active key is the   *)
(* stored key.                                                             *)
C20_AsStated ==
    (InitializeCalled /\ ValidThemes(themesFile) /\ tcall.fault = "none")
        => IF tbefore.file.kind = "absent"
           THEN /\ StoredKey(settingsFile) = "default"
                /\ current_theme_key = "default"
           ELSE IF StoredKey(tbefore.file) \notin themes
           THEN /\ current_theme_key = "default"
                /\ tret = "None"
           ELSE current_theme_key = StoredKey(tbefore.file)

(* C20 amended: as stated, except that when the preference file is not     *)
(* TOML, or its appearance entry is not a table, or its theme entry is an  *)
(* array, initialize() raises and leaves the active key and the file as    *)
(* they were.                                                              *)
C20_LoadsPreference ==
    (InitializeCalled /\ ValidThemes(themesFile) /\ tcall.fault = "none")
        => IF tbefore.file.kind = "absent"
           THEN /\ StoredKey(settingsFile) = "default"
                /\ current_theme_key = "default"
                /\ tret = "None"
           ELSE IF Unreadable(tbefore.file)
           THEN /\ tret \in {"TOMLDecodeError", "AttributeError", "TypeError"}
                /\ current_theme_key = tbefore.key
                /\ settingsFile = tbefore.file
           ELSE IF StoredKey(tbefore.file) \notin themes
           THEN /\ current_theme_key = "default"
                /\ tret = "None"
                /\ settingsFile = tbefore.file
           ELSE /\ current_theme_key = StoredKey(tbefore.file)
                /\ tret = "None"
                /\ settingsFile = tbefore.file

C20_Witness ==
    /\ InitializeCalled /\ ValidThemes(themesFile) /\ tcall.fault = "none"
    /\ StoredKey(tbefore.file) = "nonexistent"
    /\ tbefore.key = "ocean_breeze"
    /\ current_theme_key = "default"
    /\ tret = "None"

----------------------------------------------------------------------------
(* The accessors' answers, checked under ReloadSpec *)

(* C21: once initialize() has returned normally in the process, and while *)
(* the loaded theme set is a table of themes, get_current_theme() returns  *)
(* the theme of the active key; when the active key is not in the loaded   *)
(* theme set it sets the active key to `default` and returns the default   *)
(* theme, and it raises nothing.                                           *)
C21_CurrentTheme ==
    (tcall.op = "get_current_theme" /\ loadedOk /\ themesType = "dict")
        => IF tbefore.key \in tbefore.themes
           THEN /\ tret = tbefore.key
                /\ current_theme_key = tbefore.key
           ELSE /\ tret = "default"
                /\ current_theme_key = "default"

(* C22: in every registry state and for every role name, get_color(role)
   raises nothing and returns the value the current theme defines for the
   role, or "#FFFFFF" when the current theme does not define it. *)
C22_GetColorTotal ==
    (tcall.op = "get_color")
        => /\ tret \notin {"KeyError", "TypeError"}
           /\ tret = IF tcall.key \in DOMAIN Palette(current_theme_key)
                     THEN Palette(current_theme_key)[tcall.key]
                     ELSE "#FFFFFF"

(* C23: an accessor (get_current_theme, get_color, get_category_colors)
   called on a registry whose initialize() has not been called, or whose
   last initialize() failed, raises nothing; and when the initialize() of
   the colours module fails, the module is loaded with its built-in default
   values. *)
C23_FallbackValues ==
    /\ (/\ tcall.op \in {"get_current_theme", "get_color",
                         "get_category_colors"}
        /\ ~ready) => tret \notin Exceptions
    /\ (tcall.op = "import" /\ tcall.initialize # "None")
            => /\ tret = "None"
               /\ colors = [name \in ColorNames |-> Builtin(name)]

\* The constants of the colours module when theme `key` is the one read.
ConstantsOf(key) ==
    [name \in ColorNames |-> theme_get(key, RoleOf(name), Builtin(name))]

\* The themes config/themes.toml defines now.
ThemesOnDisk == load_themes(themesFile, [themes |-> {}, type |-> "dict"]).themes

\* The last three calls were switch_theme(k) for a loaded k,
\* colors.reload_colors() and importlib.reload(colors).
SwitchedAndReloaded ==
    /\ tcall.op = "reload"
    /\ tcall.switched \in {"True", "False"}
    /\ tcall.key \in tbefore.themes

(* C24 as stated: after switch_theme(k) for a theme k of the loaded set,
   then colors.reload_colors(), then importlib.reload(colors), every
   constant of the colours module is theme k's value for its role, or the
   built-in value when k does not define the role. *)
C24_AsStated == SwitchedAndReloaded => colors = ConstantsOf(tcall.key)

(* C24: the same, after a switch_theme(k) that returned True and while
   config/themes.toml defines the themes that were loaded. *)
C24_ReloadShowsTheme ==
    (/\ SwitchedAndReloaded
     /\ tcall.switched = "True"
     /\ ThemesOnDisk = tbefore.themes) => colors = ConstantsOf(tcall.key)

C24_Witness ==
    /\ SwitchedAndReloaded
    /\ tcall.switched = "True"
    /\ ThemesOnDisk = tbefore.themes
    /\ tcall.key = "ocean_breeze"
    /\ colors["ACCENT_PURPLE"] = "#00E5FF"
    /\ colors["WARNING"] = "#FFB703"

\* initialize() is called again, after a call of it that returned normally.
\* Used where nothing but the program writes the two files.
CalledAgain == tcall.op = "initialize" /\ tcall.again

(* C25 as stated: a repeated initialize(), the two files being as the
   previous successful call and the switch_theme calls since left them,
   leaves the loaded theme set and the in-memory active key as they were. *)
C25_AsStated ==
    CalledAgain => /\ themes = tbefore.themes
                   /\ current_theme_key = tbefore.key

(* C25: such a repeated initialize() leaves the loaded theme set as it was,
   and leaves the in-memory active key as it was when no switch_theme since
   failed to store the key it made active. *)
C25_Repeatable ==
    (CalledAgain /\ ~tcall.unsaved)
        => /\ themes = tbefore.themes
           /\ current_theme_key = tbefore.key

C25_Witness ==
    /\ CalledAgain
    /\ ~tcall.unsaved
    /\ tret = "None"
    /\ lastSwitched = "ocean_breeze"
    /\ current_theme_key = "ocean_breeze"
    /\ themes = {"default", "ocean_breeze"}

\* The last submission of a form was handed to the store.
ReachedAdd ==
    tcall.op = "submit_transaction" /\ tcall.outcome = "add_transaction"

(* C26: every submission of an add-transaction form that is handed to
   add_transaction has an amount greater than 0, a kind of income or
   expense, a category of the known category set and a description of at
   most 500 characters; a submission that is not handed over leaves the
   ledger as it was. *)
C26_ValidatedBeforeAdd ==
    /\ ReachedAdd
        => /\ ~tcall.amount.nan /\ tcall.amount.n > 0
           /\ tcall.type \in {"income", "expense"}
           /\ tcall.category \in category_keys(appColors["CATEGORY_COLORS"])
           /\ len(tcall.description) <= 500
    /\ (tcall.op = "submit_transaction" /\ ~ReachedAdd) => rows = tcall.table

\* switch_theme(k) has returned, for a key k that get_available_themes()
\* lists: a key of the table of themes initialize() loaded and accepted.
SwitchToListed ==
    /\ SwitchCalled
    /\ tret # "running"
    /\ ready
    /\ themesType = "dict"
    /\ tcall.key \in tbefore.themes

(* C27: for a theme file initialize() accepts, switch_theme(k) of a key k
   that get_available_themes() lists is not rejected, and returns True with
   k the active key when the preference is stored. *)
C27_ListedIsSelectable ==
    SwitchToListed
        => /\ ~refused(tcall.key, tbefore.themes)
           /\ (tcall.fault = "none" /\ ~Unreadable(tbefore.file))
                    => (tret = "True" /\ current_theme_key = tcall.key)

\* apply_theme has returned without raising.
Applied == tcall.op = "apply_theme" /\ tret \notin Exceptions

\* The colours module and the app module hold the colours of the theme
\* that is active in memory.
ShowsActiveTheme ==
    /\ colors = ConstantsOf(current_theme_key)
    /\ appColors = copied(ConstantsOf(current_theme_key))

(* C28 as stated: after apply_theme has completed, whatever switch_theme
   returned, the constants of the colours module and the app module's
   copies are those of the theme that is active in memory. *)
C28_AsStated == Applied => ShowsActiveTheme

(* C28: the same, when switch_theme returned True. *)
C28_AppliedThemeShown == (Applied /\ tcall.switch = "True") => ShowsActiveTheme

C28_Witness ==
    /\ Applied
    /\ tcall.switch = "True"
    /\ current_theme_key = "ocean_breeze"
    /\ appColors["ACCENT_PURPLE"] = "#00E5FF"
    /\ colors["WARNING"] = "#FFB703"
    /\ cbefore.app["ACCENT_PURPLE"] = "#8B5CF6"

\* The stored transactions whose kind is neither 'income' nor 'expense'.
OtherKind == {r \in Range(rows) : r.type \notin {"income", "expense"}}

\* The stored transactions without those.
ProperKind == Range(rows) \ OtherKind

(* C29: a transaction of a kind other than exactly 'income' or 'expense' is
   stored by add_transaction and returned by get_transactions, and counts
   for nothing in the balance, in monthly_income, in monthly_expense and in
   top_categories: each is what it is over the other transactions alone. *)
C29_OtherKindCountsZero ==
    /\ (/\ Answered("add_transaction")
        /\ call.args[1] \notin {"income", "expense"})
            => /\ ret = Returned(TRUE)
               /\ \E r \in Created : /\ r.type = call.args[1]
                                     /\ r.amount = call.args[3]
                                     /\ r \in OtherKind
    /\ (Answered("get_transactions") /\ call.args[1] < 0)
            => OtherKind \subseteq Range(ret.value)
    /\ Answered("get_balance")
            => ret.value = AmountSum(OfKind(ProperKind, "income"))
                           - AmountSum(OfKind(ProperKind, "expense"))
    /\ Answered("get_statistics")
            => /\ ret.value.monthly_income
                    = AmountSum(OfKind(ProperKind \cap RecentSince(now), "income"))
               /\ ret.value.monthly_expense
                    = AmountSum(OfKind(ProperKind \cap RecentSince(now), "expense"))
               /\ \A i \in 1..Len(ret.value.top_categories) :
                     LET entry == ret.value.top_categories[i]
                     IN  entry[2] = AmountSum(
                            {r \in OfKind(ProperKind \cap RecentSince(now), "expense") :
                                r.category = entry[1]})

C29_Witness ==
    /\ Answered("get_balance")
    /\ Len(rows) = 2
    /\ rows[1].type = "Income" /\ rows[1].amount = 2000
    /\ rows[2].type = "income" /\ rows[2].amount = 50
    /\ ret.value = 50

(* C30: a switch_theme(key) that returns True leaves a preference file
   whose appearance.theme is `key` and whose other content is what the file
   held before the call: the other entries of `appearance` and the other
   sections are kept, and none is added. *)
C30_OnlyThemeEntry ==
    (SwitchCalled /\ tret = "True")
        => LET old == tbefore.file
               kept == IF old.kind = "doc" THEN old ELSE EmptyDoc
           IN  /\ settingsFile.kind = "doc"
               /\ settingsFile.appearance.kind = "table"
               /\ settingsFile.appearance.theme = tcall.key
               /\ settingsFile.other = kept.other
               /\ settingsFile.appearance.extra =
                     (kept.appearance.kind = "table" /\ kept.appearance.extra)

C30_Witness ==
    /\ SwitchCalled
    /\ tret = "True"
    /\ tcall.key = "default"
    /\ tbefore.file = Doc(Table("ocean_breeze", TRUE), TRUE)
    /\ settingsFile = Doc(Table("default", TRUE), TRUE)

====
